---- MODULE Spec2Model ----
(***************************************************************************)
(* A model of meetily_capacities_sync.py: the Reader (read_transcript_file *)
(* and its helpers), the pipeline of process_transcript, the sync-state    *)
(* file, and main's single-file and scan modes, over consecutive runs of   *)
(* the program.                                                            *)
(***************************************************************************)
EXTENDS Integers, Sequences, FiniteSets, TLC

VARIABLES
  pc,               \* where the process is: "off" when no process runs
  run,              \* how many runs of the program were started
  env,              \* CAPACITIES_TOKEN, CAPACITIES_SPACE_ID set, TRANSCRIPT_DIR exists
  argv,             \* the parsed command line
  mode,             \* "none", "single" or "scan"
  processed_files,  \* main's processed_files
  sync_file,        \* SYNC_STATE_FILE on disk
  loaded,           \* what load_sync_state returned in this run
  file_at_start,    \* SYNC_STATE_FILE as it was when this run started
  succeeded,        \* the paths process_transcript returned True for in this run
  failed,           \* the paths process_transcript returned False for in this run
  phase,            \* which directory the scan iterates: "T", "I" or "-"
  todo,             \* entries of that directory not iterated yet
  cur,              \* file_path of the process_transcript call
  metadata,         \* what the scan read from metadata.json of cur
  inp,              \* what read_transcript_file found (kept until it is checked)
  transcript,       \* process_transcript's transcript
  response,         \* the outcome of requests.post
  result,           \* process_transcript's return value
  steps,            \* the stages the current call went through, in order
  exit_status       \* "none" while running, else how the process ended

vars == <<pc, run, env, argv, mode, processed_files, sync_file, loaded, file_at_start,
          succeeded, failed, phase, todo, cur, metadata, inp, transcript, response, result,
          steps, exit_status>>

\* ------------------------------------------------------------------ bounds
MaxSegs == 2
MaxRuns == 2

\* ----------------------------------------------------------------- strings
\* A Python str is a sequence of characters; " " stands for whitespace.

\* the sequences over S of length at most n
RECURSIVE SeqsUpTo(_, _)
SeqsUpTo(S, n) ==
  IF n = 0 THEN {<<>>}
  ELSE LET shorter == SeqsUpTo(S, n - 1)
       IN shorter \cup {Append(s, c) : s \in {t \in shorter : Len(t) = n - 1}, c \in S}

\* "", " ", "a", " b c "
Texts == {<<>>, <<" ">>, <<"a">>, <<" ", "b", " ", "c", " ">>}

RECURSIVE lstrip(_)
lstrip(s) == IF s # <<>> /\ Head(s) = " " THEN lstrip(Tail(s)) ELSE s

RECURSIVE rstrip(_)
rstrip(s) ==
  IF s # <<>> /\ s[Len(s)] = " " THEN rstrip(SubSeq(s, 1, Len(s) - 1)) ELSE s

\* str.strip()
strip(s) == rstrip(lstrip(s))

\* " ".join(parts)
RECURSIVE join(_)
join(parts) ==
  IF parts = <<>> THEN <<>>
  ELSE IF Len(parts) = 1 THEN parts[1]
  ELSE parts[1] \o <<" ">> \o join(Tail(parts))

\* ------------------------------------------------- values a read can yield
\* None, a str, or an exception that leaves the function.
None == [tag |-> "None", s |-> <<>>]
Str(s) == [tag |-> "str", s |-> s]
Raise(e) == [tag |-> "raise", s |-> <<e>>]

\* ------------------------------------------------------------ JSON values
\* The value of a generic key or of a segment's 'text': a str or not.
JStr(s) == [k |-> "str", s |-> s]
JNonStr == [k |-> "num", s |-> <<>>]
JVals == {JStr(s) : s \in Texts} \cup {JNonStr}
GenVals == {JStr(<<"a">>), JStr(<<" ">>), JNonStr}

\* An element of the segments array: an object (with or without 'text'),
\* or something that is no object.
SegObj(v) == [k |-> "obj", has_text |-> TRUE, text |-> v]
SegNoText == [k |-> "obj", has_text |-> FALSE, text |-> JNonStr]
SegNonObj == [k |-> "str", has_text |-> FALSE, text |-> JNonStr]
Segs == {SegObj(v) : v \in JVals} \cup {SegNoText, SegNonObj}

\* The value under 'segments': an array, or a value of another type
\* (truthy or falsy), iterable (str, object) or not (number).
SegArr(items) == [k |-> "arr", truthy |-> items # <<>>, items |-> items]
SegOther(k, truthy) == [k |-> k, truthy |-> truthy, items |-> <<>>]
SegVals ==
  {SegArr(items) : items \in SeqsUpTo(Segs, MaxSegs)}
    \cup {SegOther(k, t) : k \in {"str", "num", "obj"}, t \in BOOLEAN}
    \cup {SegOther("null", FALSE)}

\* the values of 'segments' that are no array or an array of at most one element
SegValsShort == {sv \in SegVals : sv.items = <<>> \/ Tail(sv.items) = <<>>}

GenericKeys == <<"text", "transcript", "content">>
AllKeys == {"segments", "text", "transcript", "content"}

\* What json.load gives: `has` is the set of the four names for which
\* `name in data` is true (keys of an object, elements of an array,
\* substrings of a string); for an object, segments and gen hold the values.
NoGen == [g \in {"text", "transcript", "content"} |-> JNonStr]
Unparseable == [k |-> "unparseable", has |-> {}, segments |-> SegOther("null", FALSE), gen |-> NoGen]
Scalar(k) == [k |-> k, has |-> {}, segments |-> SegOther("null", FALSE), gen |-> NoGen]
Container(k, has) == [k |-> k, has |-> has, segments |-> SegOther("null", FALSE), gen |-> NoGen]
Object(has, segments, gen) == [k |-> "obj", has |-> has, segments |-> segments, gen |-> gen]

Docs ==
  {Unparseable, Scalar("num"), Scalar("null")}
    \cup {Container(k, has) : k \in {"arr", "str"}, has \in SUBSET AllKeys}
    \cup UNION {
           {Object(has, sv, [g \in DOMAIN NoGen |-> IF g \in has THEN gv[g] ELSE JNonStr]) :
              sv \in IF "segments" \notin has THEN {SegOther("null", FALSE)}
                     ELSE IF has = {"segments"} THEN SegVals
                     ELSE SegValsShort,
              gv \in [has \ {"segments"} -> GenVals]}
           : has \in SUBSET AllKeys}

\* ------------------------------------------------------------- the paths
\* Entries of TRANSCRIPT_DIR and of IMPORT_DIR, as str(item) gives them.
TranscriptDirItems == {"T/rec1", "T/rec2", "T/rec3"}
ImportDirItems == {"I/a.MP3", "I/c.txt"}
\* What the positional argument can be: "./T/rec1" is another spelling of
\* the folder T/rec1; the others are files and folders elsewhere.
ArgFiles == {"T/rec1", "./T/rec1", "I/a.MP3", "n.txt", "N.TXT", "d.json", "x.pdf", "empty_dir"}
Paths == TranscriptDirItems \cup ImportDirItems \cup ArgFiles

\* Path.is_dir()
is_dir(p) == p \in {"T/rec1", "T/rec2", "T/rec3", "./T/rec1", "empty_dir"}
\* (p / "transcripts.json").exists(), (p / "metadata.json").exists()
has_transcripts(p) == p \in {"T/rec1", "T/rec2", "T/rec3", "./T/rec1"}
has_metadata(p) == p \in {"T/rec1", "T/rec2", "./T/rec1"}
\* Path.suffix
suffix(p) ==
  CASE p = "I/a.MP3" -> ".MP3"
    [] p \in {"I/c.txt", "n.txt"} -> ".txt"
    [] p = "N.TXT" -> ".TXT"
    [] p = "d.json" -> ".json"
    [] p = "x.pdf" -> ".pdf"
    [] OTHER -> ""
\* str.lower() on a suffix
lower(x) ==
  CASE x = ".MP3" -> ".mp3"
    [] x = ".TXT" -> ".txt"
    [] OTHER -> x

AUDIO_VIDEO_EXTENSIONS ==
  {".mp3", ".mp4", ".wav", ".m4a", ".webm", ".mov", ".avi", ".mkv", ".flac", ".ogg"}

\* ------------------------------------------------------------ the Reader
\* What the Reader finds on disk and in its collaborators when it runs:
\*   st   whether open() succeeds (a missing or unreadable file is
\*        "unopenable"), and whether the bytes decode as UTF-8
\*   text the file's text (a .txt/.md file, or Whisper's result)
\*   doc  what json.load gives (a .json file, or a folder's transcripts.json)
\*   wh   how the Whisper step goes
FileStates == {"ok", "unopenable", "undecodable"}
WhisperOutcomes == {"not_installed", "no_audio_stream", "no_ffprobe", "failed", "ok"}
Input(st, text, doc, wh) == [st |-> st, text |-> text, doc |-> doc, wh |-> wh]

\* _transcribe_audio
_transcribe_audio(found) ==
  IF found.wh = "ok" THEN Str(found.text) ELSE None

\* segment.get('text', '').strip() for one element of segments
segment_text(seg) ==
  IF seg.k # "obj" THEN Raise("AttributeError")
  ELSE IF ~seg.has_text THEN Str(strip(<<>>))
  ELSE IF seg.text.k # "str" THEN Raise("AttributeError")
  ELSE Str(strip(seg.text.s))

\* " ".join(segment.get('text', '').strip() for segment in segments)
join_segments(sv) ==
  IF sv.k = "num" THEN Raise("TypeError")
  ELSE IF sv.k # "arr" THEN Raise("AttributeError")
  ELSE LET parts == [i \in 1..Len(sv.items) |-> segment_text(sv.items[i])]
           bad == {i \in 1..Len(parts) : parts[i].tag = "raise"}
       IN IF bad # {} THEN parts[CHOOSE i \in bad : \A j \in bad : i <= j]
          ELSE Str(join([i \in 1..Len(parts) |-> parts[i].s]))

\* the loop over ('text', 'transcript', 'content') from its i-th key on
RECURSIVE generic_keys(_, _)
generic_keys(data, i) ==
  IF i > Len(GenericKeys) THEN None
  ELSE IF GenericKeys[i] \in data.has
    THEN IF data.k # "obj" THEN Raise("TypeError")
         ELSE IF data.gen[GenericKeys[i]].k = "str" THEN Str(data.gen[GenericKeys[i]].s)
         ELSE generic_keys(data, i + 1)
  ELSE generic_keys(data, i + 1)

\* _read_json_transcript
_read_json_transcript(found) ==
  LET data == found.doc IN
  IF found.st = "unopenable" THEN Raise("OSError")
  ELSE IF found.st = "undecodable" THEN Raise("UnicodeDecodeError")
  ELSE IF data.k = "unparseable" THEN None
  ELSE IF data.k \in {"num", "null"} THEN Raise("TypeError")
  ELSE IF "segments" \in data.has /\ data.k # "obj" THEN Raise("AttributeError")
  ELSE IF "segments" \in data.has /\ data.segments.truthy THEN join_segments(data.segments)
  ELSE generic_keys(data, 1)

\* _read_meetily_folder
_read_meetily_folder(folder_path, found) ==
  IF ~has_transcripts(folder_path) THEN None
  ELSE _read_json_transcript(found)

\* read_transcript_file
read_transcript_file(file_path, found) ==
  IF is_dir(file_path) THEN _read_meetily_folder(file_path, found)
  ELSE IF lower(suffix(file_path)) \in AUDIO_VIDEO_EXTENSIONS THEN _transcribe_audio(found)
  ELSE IF suffix(file_path) \in {".txt", ".md"}
    THEN IF found.st = "unopenable" THEN Raise("OSError")
         ELSE IF found.st = "undecodable" THEN Raise("UnicodeDecodeError")
         ELSE Str(found.text)
  ELSE IF suffix(file_path) = ".json" THEN _read_json_transcript(found)
  ELSE None

\* The inputs a read of path p can meet, with the JSON documents drawn from D.
InputsFor(p, D) ==
  IF (is_dir(p) /\ has_transcripts(p)) \/ (~is_dir(p) /\ suffix(p) = ".json")
    THEN {Input("ok", <<>>, d, "ok") : d \in D}
           \cup {Input(st, <<>>, Unparseable, "ok") : st \in {"unopenable", "undecodable"}}
  ELSE IF ~is_dir(p) /\ lower(suffix(p)) \in AUDIO_VIDEO_EXTENSIONS
    THEN {Input("ok", t, Unparseable, "ok") : t \in Texts}
           \cup {Input("ok", <<>>, Unparseable, w) : w \in WhisperOutcomes \ {"ok"}}
  ELSE IF ~is_dir(p) /\ suffix(p) \in {".txt", ".md"}
    THEN {Input("ok", t, Unparseable, "ok") : t \in Texts}
           \cup {Input(st, <<>>, Unparseable, "ok") : st \in {"unopenable", "undecodable"}}
  ELSE {Input("ok", <<>>, Unparseable, "ok")}

NoInput == Input("ok", <<>>, Unparseable, "ok")

\* The documents the runs of main meet: those with no key or only 'segments'
\* (every value of it), or only 'text'.
MainDocs == {d \in Docs : d.has \in {{}, {"segments"}, {"text"}}}

\* ------------------------------------------------------------- sync state
\* SYNC_STATE_FILE: absent, a JSON array of paths ("ok"), or not parseable
\* ("corrupt": opened for writing and not written yet).
FileAbsent == [st |-> "absent", paths |-> {}]
FileOk(paths) == [st |-> "ok", paths |-> paths]
FileTruncated == [st |-> "corrupt", paths |-> {}]

\* load_sync_state; `how` is "read", or "interrupted" when a process
\* interrupt arrives inside its try block, where the bare except swallows it.
load_sync_state(f, how) ==
  IF f.st = "ok" /\ how = "read" THEN f.paths ELSE {}

\* ------------------------------------------------------------------ main
NoFile == "<none>"
\* nargs="?": no positional argument, an empty one, or a path; or a command
\* line that argparse rejects
BadArgv == [ok |-> FALSE, file |-> NoFile]
ArgVs == [ok : {TRUE}, file : ArgFiles \cup {NoFile, ""}] \cup {BadArgv}
NoArgv == [ok |-> TRUE, file |-> NoFile]
NoEnv == [token |-> FALSE, space |-> FALSE, tdir |-> FALSE]

\* the check of TRANSCRIPT_DIR left out
config_valid_no_dir(e) == e.token /\ e.space

\* the three checks "Validate configuration"
config_valid(e) == e.token /\ e.space /\ e.tdir

\* `if args.file is not None:`
single_file_mode_not_none(a) == a.file # NoFile

\* `if args.file:`
single_file_mode(a) == a.file \notin {NoFile, ""}

\* metadata.json as the scan reads it: its status is "completed" or another
\* one, it has no status, is no object, does not parse, or the read is
\* interrupted inside the try block (the bare except takes all but the first
\* to `continue`)
MetaDocs == {"completed", "recording", "no_status", "not_object", "unparseable", "interrupted"}

\* the check of the status left out
folder_candidate_any_status(item, md) ==
  is_dir(item) /\ has_transcripts(item) /\ has_metadata(item)
    /\ md \in {"completed", "recording", "no_status"}

\* the conditions under which the first loop goes on to the membership test
folder_candidate(item, md) ==
  is_dir(item) /\ has_transcripts(item) /\ has_metadata(item) /\ md = "completed"

\* the condition of the second loop
import_candidate(file_path) == lower(suffix(file_path)) \in AUDIO_VIDEO_EXTENSIONS

\* the membership test left out
unprocessed_always(item, processed) == TRUE

\* `str(item) not in processed_files`
unprocessed(item, processed) == item \notin processed

\* `not transcript or not transcript.strip()`
empty_transcript(t) == t.tag = "None" \/ t.s = <<>> \/ strip(t.s) = <<>>

\* an except clause that names the network errors only
caught_network_only(t) == t = "RequestException"

\* `except Exception` of process_transcript: every exception a step raises
caught(t) == TRUE

\* requests.post: a status code, a requests.RequestException, or another exception
Responses == {"200", "201", "404", "500", "RequestException", "Exception"}
\* every 2xx status taken for success
send_to_capacities_2xx(r) ==
  IF r \in {"200", "201"} THEN "True"
  ELSE IF r = "Exception" THEN "raise"
  ELSE "False"

\* send_to_capacities: True, False, or an exception it lets through
send_to_capacities(r) ==
  IF r = "200" THEN "True"
  ELSE IF r = "Exception" THEN "raise"
  ELSE "False"

Reset ==
  /\ cur' = NoFile
  /\ metadata' = "-"
  /\ inp' = NoInput
  /\ transcript' = None
  /\ response' = "-"
  /\ result' = "-"
  /\ steps' = <<>>

Exit(status) ==
  /\ pc' = "off"
  /\ exit_status' = status

Init ==
  /\ pc = "off"
  /\ run = 0
  /\ env = NoEnv
  /\ argv = NoArgv
  /\ mode = "none"
  /\ processed_files = {}
  /\ sync_file = FileAbsent
  /\ loaded = {}
  /\ file_at_start = FileAbsent
  /\ succeeded = {}
  /\ failed = {}
  /\ phase = "-"
  /\ todo = {}
  /\ cur = NoFile
  /\ metadata = "-"
  /\ inp = NoInput
  /\ transcript = None
  /\ response = "-"
  /\ result = "-"
  /\ steps = <<>>
  /\ exit_status = "none"

\* the program is started
StartRun ==
  /\ pc = "off"
  /\ run < MaxRuns
  /\ run' = run + 1
  /\ pc' = "validate"
  /\ env' = NoEnv
  /\ argv' = NoArgv
  /\ mode' = "none"
  /\ processed_files' = {}
  /\ loaded' = {}
  /\ file_at_start' = sync_file
  /\ succeeded' = {}
  /\ failed' = {}
  /\ phase' = "-"
  /\ todo' = {}
  /\ exit_status' = "none"
  /\ Reset
  /\ UNCHANGED sync_file

\* main: Validate configuration
Validate ==
  /\ pc = "validate"
  /\ \E e \in [token : BOOLEAN, space : BOOLEAN, tdir : BOOLEAN] :
       /\ env' = e
       /\ IF config_valid(e)
            THEN pc' = "load" /\ UNCHANGED exit_status
            ELSE Exit("1")
  /\ UNCHANGED <<run, argv, mode, processed_files, sync_file, loaded, file_at_start,
                 succeeded, failed, phase, todo, cur, metadata, inp, transcript, response,
                 result, steps>>

\* main: processed_files = load_sync_state()
Load ==
  /\ pc = "load"
  /\ \E how \in IF sync_file.st = "absent" THEN {"read"} ELSE {"read", "interrupted"} :
       /\ processed_files' = load_sync_state(sync_file, how)
       /\ loaded' = load_sync_state(sync_file, how)
  /\ pc' = "args"
  /\ UNCHANGED <<run, env, argv, mode, sync_file, file_at_start, succeeded, failed, phase, todo,
                 cur, metadata, inp, transcript, response, result, steps, exit_status>>

\* main: parser.parse_args() and the choice of the mode
ParseArgs ==
  /\ pc = "args"
  /\ \E a \in ArgVs :
       /\ argv' = a
       /\ IF ~a.ok
            THEN /\ Exit("2")
                 /\ UNCHANGED <<mode, phase, todo, cur, steps>>
          ELSE IF single_file_mode(a)
            THEN /\ mode' = "single"
                 /\ cur' = a.file
                 /\ steps' = <<>>
                 /\ pc' = "pt_read"
                 /\ UNCHANGED <<phase, todo, exit_status>>
          ELSE /\ mode' = "scan"
               /\ phase' = "T"
               /\ todo' = TranscriptDirItems
               /\ pc' = "scan"
               /\ UNCHANGED <<cur, steps, exit_status>>
  /\ UNCHANGED <<run, env, processed_files, sync_file, loaded, file_at_start, succeeded, failed,
                 metadata, inp, transcript, response, result>>

\* one iteration of `for item in TRANSCRIPT_DIR.iterdir()`, up to the call
ScanFolder ==
  /\ pc = "scan"
  /\ phase = "T"
  /\ \E item \in todo, md \in MetaDocs :
       IF folder_candidate(item, md) /\ unprocessed(item, processed_files)
         THEN /\ cur' = item
              /\ metadata' = md
              /\ steps' = <<>>
              /\ pc' = "pt_read"
              /\ UNCHANGED todo
         ELSE /\ todo' = todo \ {item}
              /\ UNCHANGED <<cur, metadata, steps, pc>>
  /\ UNCHANGED <<run, env, argv, mode, processed_files, sync_file, loaded, file_at_start,
                 succeeded, failed, phase, inp, transcript, response, result, exit_status>>

\* the first loop ends: `if IMPORT_DIR.exists()`
ScanImportDir ==
  /\ pc = "scan"
  /\ phase = "T"
  /\ todo = {}
  /\ phase' = "I"
  /\ \E exists \in BOOLEAN : todo' = IF exists THEN ImportDirItems ELSE {}
  /\ UNCHANGED <<pc, run, env, argv, mode, processed_files, sync_file, loaded,
                 file_at_start, succeeded, failed, cur, metadata, inp, transcript,
                 response,
                 result, steps, exit_status>>

\* one iteration of `for file_path in IMPORT_DIR.iterdir()`, up to the call
ScanImport ==
  /\ pc = "scan"
  /\ phase = "I"
  /\ \E file_path \in todo :
       IF import_candidate(file_path) /\ unprocessed(file_path, processed_files)
         THEN /\ cur' = file_path
              /\ steps' = <<>>
              /\ pc' = "pt_read"
              /\ UNCHANGED todo
         ELSE /\ todo' = todo \ {file_path}
              /\ UNCHANGED <<cur, steps, pc>>
  /\ UNCHANGED <<run, env, argv, mode, processed_files, sync_file, loaded, file_at_start,
                 succeeded, failed, phase, metadata, inp, transcript, response, result,
                 exit_status>>

\* the second loop ends: main returns
ScanDone ==
  /\ pc = "scan"
  /\ phase = "I"
  /\ todo = {}
  /\ Exit("0")
  /\ UNCHANGED <<run, env, argv, mode, processed_files, sync_file, loaded, file_at_start,
                 succeeded, failed, phase, todo, cur, metadata, inp, transcript, response,
                 result, steps>>

\* process_transcript: transcript = self.read_transcript_file(file_path)
PtRead ==
  /\ pc = "pt_read"
  /\ \E i \in InputsFor(cur, MainDocs) :
       /\ inp' = i
       /\ transcript' = read_transcript_file(cur, i)
  /\ steps' = Append(steps, "read")
  /\ pc' = "pt_check"
  /\ UNCHANGED <<run, env, argv, mode, processed_files, sync_file, loaded, file_at_start,
                 succeeded, failed, phase, todo, cur, metadata, response, result, exit_status>>

\* process_transcript: the read raised, or `if not transcript or not transcript.strip()`
PtCheck ==
  /\ pc = "pt_check"
  /\ inp' = NoInput
  /\ IF transcript.tag = "raise"
       THEN IF caught(transcript.s[1])
              THEN result' = "False" /\ pc' = "pt_ret" /\ UNCHANGED exit_status
              ELSE Exit("1") /\ UNCHANGED result
     ELSE IF empty_transcript(transcript)
       THEN result' = "False" /\ pc' = "pt_ret" /\ UNCHANGED exit_status
     ELSE pc' = "pt_ai" /\ UNCHANGED <<result, exit_status>>
  /\ UNCHANGED <<run, env, argv, mode, processed_files, sync_file, loaded, file_at_start,
                 succeeded, failed, phase, todo, cur, metadata, transcript, response, steps>>

\* ollama.chat answers, or raises
AiOutcomes == {"ok", "ResponseError"}

\* process_transcript: notes = self.process_with_ai(...); the transcript goes
\* into the prompt and is not used after this call
PtAi ==
  /\ pc = "pt_ai"
  /\ steps' = Append(steps, "summarize")
  /\ \E o \in AiOutcomes :
       IF o = "ok"
         THEN pc' = "pt_send" /\ UNCHANGED <<result, exit_status>>
       ELSE IF caught(o)
         THEN result' = "False" /\ pc' = "pt_ret" /\ UNCHANGED exit_status
       ELSE Exit("1") /\ UNCHANGED result
  /\ transcript' = None
  /\ UNCHANGED <<run, env, argv, mode, processed_files, sync_file, loaded, file_at_start,
                 succeeded, failed, phase, todo, cur, metadata, inp, response>>

\* process_transcript: if self.send_to_capacities(notes, source_name)
PtSend ==
  /\ pc = "pt_send"
  /\ steps' = Append(steps, "publish")
  /\ \E r \in Responses :
       /\ response' = r
       /\ IF send_to_capacities(r) = "raise"
            THEN IF caught(r)
                   THEN result' = "False" /\ pc' = "pt_ret" /\ UNCHANGED exit_status
                   ELSE Exit("1") /\ UNCHANGED result
            ELSE /\ result' = send_to_capacities(r)
                 /\ pc' = "pt_ret"
                 /\ UNCHANGED exit_status
  /\ UNCHANGED <<run, env, argv, mode, processed_files, sync_file, loaded, file_at_start,
                 succeeded, failed, phase, todo, cur, metadata, inp, transcript>>

\* what main does when process_transcript returned False: "exit" (sys.exit(1))
\* in single-file mode, "continue" with the next entry in a scan
on_failure(m) == IF m = "single" THEN "exit" ELSE "continue"

\* the path recorded whatever process_transcript returned
should_record_always(r) == TRUE

\* `if processor.process_transcript(...)`: whether main records the path
should_record(r) == r = "True"

\* process_transcript returns to main
PtReturn ==
  /\ pc = "pt_ret"
  /\ succeeded' = IF result = "True" THEN succeeded \cup {cur} ELSE succeeded
  /\ failed' = IF result = "True" THEN failed ELSE failed \cup {cur}
  /\ IF should_record(result)
       THEN /\ pc' = "add"
            /\ UNCHANGED <<todo, cur, metadata, inp, transcript, response, result, steps,
                           exit_status>>
     ELSE IF on_failure(mode) = "exit"
       THEN /\ Exit("1")
            /\ UNCHANGED <<todo, cur, metadata, inp, transcript, response, result, steps>>
     ELSE /\ todo' = todo \ {cur}
          /\ pc' = "scan"
          /\ Reset
          /\ UNCHANGED exit_status
  /\ UNCHANGED <<run, env, argv, mode, processed_files, sync_file, loaded, file_at_start,
                 phase>>

\* the path with a leading "./" removed, as a normalising main would record it
record_key_normalized(path) == IF path = "./T/rec1" THEN "T/rec1" ELSE path

\* main: the element added to processed_files is the string main holds,
\* args.file as typed or str(item), with nothing applied to it
record_key(path) == path

\* main: processed_files.add(...)
Add ==
  /\ pc = "add"
  /\ processed_files' = processed_files \cup {record_key(cur)}
  /\ pc' = "save_open"
  /\ UNCHANGED <<run, env, argv, mode, sync_file, loaded, file_at_start, succeeded, failed, phase,
                 todo, cur, metadata, inp, transcript, response, result, steps,
                 exit_status>>

\* save_sync_state: open(SYNC_STATE_FILE, 'w') empties the file
SaveOpen ==
  /\ pc = "save_open"
  /\ sync_file' = FileTruncated
  /\ pc' = "save_dump"
  /\ UNCHANGED <<run, env, argv, mode, processed_files, loaded, file_at_start, succeeded, failed,
                 phase, todo, cur, metadata, inp, transcript, response, result, steps,
                 exit_status>>

\* save_sync_state: what json.dump(list(processed_files), f) leaves in the file
save_sync_state(processed) == FileOk(processed)

\* save_sync_state: json.dump, then main goes on
SaveDump ==
  /\ pc = "save_dump"
  /\ sync_file' = save_sync_state(processed_files)
  /\ IF mode = "single"
       THEN /\ Exit("0")
            /\ UNCHANGED <<todo, cur, metadata, inp, transcript, response, result, steps>>
       ELSE /\ todo' = todo \ {cur}
            /\ pc' = "scan"
            /\ Reset
            /\ UNCHANGED exit_status
  /\ UNCHANGED <<run, env, argv, mode, processed_files, loaded, file_at_start, succeeded, failed,
                 phase>>

\* a process interrupt outside the two bare excepts: nothing handles
\* KeyboardInterrupt, the process ends where it is
Interrupt ==
  /\ pc # "off"
  /\ pc \notin {"reader", "reader_done"}
  /\ Exit("sigint")
  /\ Reset
  /\ UNCHANGED <<run, env, argv, mode, processed_files, sync_file, loaded, file_at_start,
                 succeeded, failed, phase, todo>>

Next ==
  \/ StartRun
  \/ Validate
  \/ Load
  \/ ParseArgs
  \/ ScanFolder
  \/ ScanImportDir
  \/ ScanImport
  \/ ScanDone
  \/ PtRead
  \/ PtCheck
  \/ PtAi
  \/ PtSend
  \/ PtReturn
  \/ Add
  \/ SaveOpen
  \/ SaveDump
  \/ Interrupt

Spec == Init /\ [][Next]_vars

\* ------------------------------------------------- the Reader on its own
\* read_transcript_file applied to every path and every input it can meet.
ReaderInit ==
  /\ pc = "reader"
  /\ run = 0
  /\ env = NoEnv
  /\ argv = NoArgv
  /\ mode = "none"
  /\ processed_files = {}
  /\ sync_file = FileAbsent
  /\ loaded = {}
  /\ file_at_start = FileAbsent
  /\ succeeded = {}
  /\ failed = {}
  /\ phase = "-"
  /\ todo = {}
  /\ cur \in Paths
  /\ metadata = "-"
  /\ inp \in InputsFor(cur, Docs)
  /\ transcript = None
  /\ response = "-"
  /\ result = "-"
  /\ steps = <<>>
  /\ exit_status = "none"

ReaderCall ==
  /\ pc = "reader"
  /\ transcript' = read_transcript_file(cur, inp)
  /\ pc' = "reader_done"
  /\ UNCHANGED <<run, env, argv, mode, processed_files, sync_file, loaded, file_at_start,
                 succeeded, failed, phase, todo, cur, metadata, inp, response, result, steps,
                 exit_status>>

ReaderNext == ReaderCall

SpecReader == ReaderInit /\ [][ReaderNext]_vars

\* ================================================================ claims

PipelinePcs == {"pt_read", "pt_check", "pt_ai", "pt_send", "pt_ret"}
Terminated == pc = "off" /\ run > 0
ConfigMissing == ~env.token \/ ~env.space \/ ~env.tdir

\* C1: in scan mode, in every run, process_transcript is never called on a
\* path that is in the sync state loaded at the start of that run.
C1_NoReprocess ==
  (mode = "scan" /\ cur # NoFile) => cur \notin loaded

\* a second scan that loaded two processed paths, skipped them, processed the
\* folder that was left, and ended
C1_Witness ==
  /\ mode = "scan"
  /\ loaded = {"T/rec1", "I/a.MP3"}
  /\ succeeded = {"T/rec2"}
  /\ exit_status = "0"

\* C2: the processed set and the sync-state file gain a path only after
\* process_transcript returned True for it, which it does only after a POST
\* answered 200; a failed call in a scan leaves the set and the file as they
\* were, with the path not in the set.
C2_RecordedOnlyAfter200 ==
  /\ [](/\ processed_files \subseteq loaded \cup succeeded
        /\ sync_file.paths \subseteq file_at_start.paths \cup succeeded
        /\ (result = "True" => response = "200")
        /\ ((mode = "scan" /\ pc = "pt_ret" /\ result = "False")
              => cur \notin processed_files))
  /\ [][/\ (succeeded' # succeeded /\ pc # "off")
             => (succeeded' = succeeded \cup {cur} /\ result = "True" /\ response = "200")
        /\ (pc = "pt_ret" /\ result = "False")
             => (processed_files' = processed_files /\ sync_file' = sync_file)]_vars

\* a scan in which one folder failed on a non-200 answer and is in neither the
\* set nor the file, while another was recorded
C2_Witness ==
  /\ mode = "scan"
  /\ exit_status = "0"
  /\ failed = {"T/rec1"}
  /\ processed_files = {"T/rec2"}
  /\ sync_file = FileOk({"T/rec2"})

\* C3: whenever the process has terminated, every path of the in-memory
\* processed set is in the persisted sync-state file.
C3_FlushedOnExit ==
  Terminated => (sync_file.st # "corrupt" /\ processed_files \subseteq sync_file.paths)

\* C4: in scan mode a failed candidate never ends the run: the call returns
\* False, the loop goes on with the entries that remain, and the run ends
\* with status 0 after both directories were iterated to the end (only a
\* process interrupt ends a scan otherwise).
C4_PerFileErrorsNotFatal ==
  /\ [](mode = "scan" =>
          /\ exit_status \in {"none", "0", "sigint"}
          /\ (exit_status = "0" => (phase = "I" /\ todo = {})))
  /\ [][(mode = "scan" /\ pc = "pt_check" /\ exit_status' # "sigint"
           /\ (transcript.tag = "raise" \/ empty_transcript(transcript)))
          => (pc' = "pt_ret" /\ result' = "False")]_vars
  /\ [][(mode = "scan" /\ pc \in {"pt_ai", "pt_send"} /\ exit_status' # "sigint")
          => (pc' = "pt_send" \/ (pc' = "pt_ret" /\ result' \in {"True", "False"}))]_vars
  /\ [][(mode = "scan" /\ pc = "pt_ret" /\ result = "False" /\ exit_status' # "sigint")
          => (pc' = "scan" /\ todo' = todo \ {cur} /\ exit_status' = "none")]_vars

\* a scan that ended normally although one folder failed, with the other
\* folder and the import file processed
C4_Witness ==
  /\ mode = "scan"
  /\ exit_status = "0"
  /\ failed = {"T/rec1"}
  /\ succeeded = {"T/rec2", "I/a.MP3"}

\* C5 as stated: a run ends with a nonzero exit status only when required
\* configuration is missing.
C5_OnlyConfigFatal ==
  exit_status \in {"1", "2"} => ConfigMissing

\* C5 as amended: missing configuration ends the run at once with status 1,
\* before the sync state is loaded or anything is read or written; status 2
\* comes from a rejected command line, status 1 otherwise only from a failed
\* call in single-file mode, and a scan never ends with a nonzero status.
C5_FatalCases ==
  /\ [](/\ exit_status = "1" => (ConfigMissing \/ (mode = "single" /\ result = "False"))
        /\ exit_status = "2" => (~ConfigMissing /\ ~argv.ok /\ mode = "none")
        /\ (exit_status = "1" /\ ConfigMissing)
             => (/\ mode = "none"
                 /\ loaded = {} /\ processed_files = {}
                 /\ succeeded = {} /\ failed = {}
                 /\ steps = <<>>
                 /\ sync_file = file_at_start)
        /\ (mode = "scan" => exit_status \notin {"1", "2"}))
  /\ [][(pc = "validate" /\ exit_status' # "sigint"
           /\ (~env'.token \/ ~env'.space \/ ~env'.tdir))
          => (pc' = "off" /\ exit_status' = "1")]_vars

\* a second run that stops on missing configuration and leaves the file of
\* the first run as it was
C5_Witness ==
  /\ exit_status = "1"
  /\ ConfigMissing
  /\ run = 2
  /\ sync_file = FileOk({"T/rec1", "I/a.MP3"})

\* C6 (checked under SpecReader): read_transcript_file never lets an
\* exception out, whatever the path and whatever it finds.
C6_ReaderNeverRaises ==
  pc = "reader_done" => transcript.tag # "raise"

\* s without its leading and trailing whitespace
Stripped(s) ==
  LET solid == {i \in 1..Len(s) : s[i] # " "}
  IN IF solid = {} THEN <<>>
     ELSE SubSeq(s, CHOOSE i \in solid : \A j \in solid : i <= j,
                    CHOOSE i \in solid : \A j \in solid : j <= i)

\* the first n of parts, with one space between neighbours
RECURSIVE Spaced(_, _)
Spaced(parts, n) ==
  IF n = 0 THEN <<>>
  ELSE IF n = 1 THEN parts[1]
  ELSE Spaced(parts, n - 1) \o <<" ">> \o parts[n]

\* the text field of a segment, "" where it has none
TextField(seg) ==
  IF seg.k = "obj" /\ seg.has_text /\ seg.text.k = "str" THEN seg.text.s ELSE <<>>

\* the segments' text fields, each stripped, joined in order by a space
SegmentsText(items) ==
  Spaced([i \in 1..Len(items) |-> Stripped(TextField(items[i]))], Len(items))

\* the scan has read transcripts.json of a completed folder and found an
\* object with a non-empty segments array
FolderWithSegmentsRead ==
  /\ mode = "scan"
  /\ phase = "T"
  /\ pc = "pt_check"
  /\ inp.st = "ok"
  /\ inp.doc.k = "obj"
  /\ "segments" \in inp.doc.has
  /\ inp.doc.segments.k = "arr"
  /\ inp.doc.segments.items # <<>>

\* every segment is an object whose text, if it has one, is a string
SegmentsWellFormed(items) ==
  \A i \in 1..Len(items) :
    items[i].k = "obj" /\ (items[i].has_text => items[i].text.k = "str")

\* the scan calls process_transcript on a folder only if it holds both files
\* and the metadata status read was "completed"
OnlyCompletedFoldersCalled ==
  (mode = "scan" /\ phase = "T" /\ cur # NoFile)
    => (is_dir(cur) /\ has_transcripts(cur) /\ has_metadata(cur) /\ metadata = "completed")

\* C7 as stated, for segments that have text fields (objects whose text, if
\* present, is a string): only completed folders are candidates, and a
\* non-empty segments array gives the stripped text fields joined by single
\* spaces, which is a non-empty string.
C7_CompletedFolderTranscript ==
  /\ OnlyCompletedFoldersCalled
  /\ (FolderWithSegmentsRead /\ SegmentsWellFormed(inp.doc.segments.items))
       => (/\ transcript = Str(SegmentsText(inp.doc.segments.items))
           /\ transcript.s # <<>>)

\* C7 as amended: only completed folders are candidates; when every segment
\* is an object whose text, if present, is a string, the transcript is the
\* stripped text fields joined in order by single spaces; it is non-empty if
\* some segment has non-blank text, and empty for a single segment whose text
\* is blank or missing.
C7_CompletedFolderTranscriptIfText ==
  /\ OnlyCompletedFoldersCalled
  /\ (FolderWithSegmentsRead /\ SegmentsWellFormed(inp.doc.segments.items))
       => LET items == inp.doc.segments.items IN
          /\ transcript = Str(SegmentsText(items))
          /\ (\E i \in 1..Len(items) : Stripped(TextField(items[i])) # <<>>)
               => transcript.s # <<>>
          /\ (Len(items) = 1 /\ Stripped(TextField(items[1])) = <<>>)
               => transcript.s = <<>>

\* segments [{"text": "a"}, {"text": " b c "}] of a completed folder read as
\* "a b c"
C7_Witness ==
  /\ FolderWithSegmentsRead
  /\ metadata = "completed"
  /\ inp.doc.segments.items =
       <<SegObj(JStr(<<"a">>)), SegObj(JStr(<<" ", "b", " ", "c", " ">>))>>
  /\ transcript = Str(<<"a", " ", "b", " ", "c">>)

\* C8: a call of process_transcript goes read, summarize, publish in that
\* order and at most once each; it summarizes only a transcript that is a
\* string with a non-blank character, publishes only after the summarizer
\* returned, and returns True exactly when the one POST answered 200.
C8_OnePostAfterReadAndSummary ==
  /\ pc = "pt_ai"
       => (/\ steps = <<"read">>
           /\ transcript.tag = "str"
           /\ \E i \in 1..Len(transcript.s) : transcript.s[i] # " ")
  /\ pc = "pt_send" => steps = <<"read", "summarize">>
  /\ steps \in {<<>>, <<"read">>, <<"read", "summarize">>,
                <<"read", "summarize", "publish">>}
  /\ (response # "-") <=> (steps = <<"read", "summarize", "publish">>)
  /\ response # "-" => result \in {"True", "False"}
  /\ (result = "True") <=> (response = "200")

\* a call whose POST was answered 500 and that returns False after one POST
C8_Witness ==
  /\ pc = "pt_ret"
  /\ steps = <<"read", "summarize", "publish">>
  /\ response = "500"
  /\ result = "False"

C10_FileGrowsBySuccesses ==
  /\ [][pc # "off" => processed_files \subseteq processed_files']_vars
  /\ [][pc = "save_dump" /\ pc' # "off" => sync_file' = FileOk(processed_files)]_vars
  /\ [](Terminated =>
          (sync_file.st # "corrupt"
             /\ sync_file.paths = file_at_start.paths \cup succeeded))

\* C11: single-file mode calls process_transcript on the argument whatever
\* the processed set holds and never scans a directory; a run that succeeded
\* ends with status 0 and the set and the file hold what was loaded plus the
\* argument exactly as typed; a run that failed ends with status 1 and the
\* set and the file are as they were.
C11_SingleFileIgnoresState ==
  /\ [][(pc = "args" /\ argv.ok /\ argv.file \notin {NoFile, ""} /\ pc' # "off")
          => (pc' = "pt_read" /\ cur' = argv.file)]_vars
  /\ [](mode = "single" =>
          (phase = "-" /\ todo = {} /\ cur \in {NoFile, argv.file}))
  /\ [][(mode = "single" /\ pc = "pt_ret" /\ pc' = "off" /\ exit_status' # "sigint")
          => (result = "False" /\ exit_status' = "1")]_vars
  /\ []((Terminated /\ mode = "single" /\ exit_status = "0") =>
          (result = "True"
             /\ processed_files = loaded \cup {argv.file}
             /\ sync_file = FileOk(loaded \cup {argv.file})))
  /\ []((Terminated /\ mode = "single" /\ exit_status = "1") =>
          (result = "False"
             /\ processed_files = loaded
             /\ sync_file = file_at_start))

\* a second run given "./T/rec1" while "T/rec1" is already recorded, and a
\* run given a path that the loaded set already holds, both ended with success
C11_Witness ==
  /\ Terminated
  /\ mode = "single"
  /\ exit_status = "0"
  /\ argv.file = "./T/rec1"
  /\ "T/rec1" \in loaded
  /\ sync_file = FileOk({"T/rec1", "./T/rec1"})

====
